---- MODULE Spec2Model ----
(***************************************************************************)
(* Model of tester_template_engine.py: the CAN signal codec (TesterSignal), *)
(* the template engine (TemplateEngine) and the script generator           *)
(* (TesterScriptGenerator).                                                 *)
(*                                                                         *)
(* Representation.  A Python str is a sequence of one-character strings.   *)
(* A non-negative Python int that takes part in bit operations (the signal  *)
(* value, a frame byte, the decoded result) is the finite set of the        *)
(* positions of its 1 bits, so that it has no width: {1,3,4,5,9} is 0x23A.  *)
(* Small signed ints (byte numbers, bit positions, lengths) are Ints.       *)
(***************************************************************************)
EXTENDS Integers, Sequences, FiniteSets, TLC

VARIABLES
    input,       \* codec run: the fields the signal specification text is made of
    pc,          \* codec run: "start", "generated", "decoded"
    gen,         \* codec run: outcome of generate_can_message
    dec,         \* codec run: outcome of decode_can_message
    variables,   \* TemplateEngine.variables
    templates,   \* TemplateEngine.templates
    files,       \* the file system: path -> content
    lastCall     \* the most recent call on the engine and its outcome

vars == <<input, pc, gen, dec, variables, templates, files, lastCall>>

codecVars == <<input, pc, gen, dec>>
engineVars == <<variables, templates, files, lastCall>>

----------------------------------------------------------------------------
(* Bounds of the model *)

\* byte numbers of a signal specification range over 0..MaxByte
MaxByte == 9

(* Program constants *)

\* msg_data = [0] * 8
FrameBytes == 8
\* signal_length > 64 is rejected
MaxSignalLength == 64

----------------------------------------------------------------------------
(* Characters and text *)

DigitSeq == <<"0", "1", "2", "3", "4", "5", "6", "7", "8", "9">>
UpperHexSeq == DigitSeq \o <<"A", "B", "C", "D", "E", "F">>
LowerHexSeq == DigitSeq \o <<"a", "b", "c", "d", "e", "f">>

\* the class [0-9]
DigitChars == {DigitSeq[k] : k \in 1..10}
\* the class [0-9A-Fa-f]
HexChars == {UpperHexSeq[k] : k \in 1..16} \cup {LowerHexSeq[k] : k \in 1..16}

HexVal(c) == CHOOSE v \in 0..15 : c \in {UpperHexSeq[v + 1], LowerHexSeq[v + 1]}
DigitVal(c) == CHOOSE v \in 0..9 : c = DigitSeq[v + 1]

RECURSIVE Pow2(_)
Pow2(n) == IF n = 0 THEN 1 ELSE 2 * Pow2(n - 1)

\* str.startswith
StartsWith(s, p) == Len(s) >= Len(p) /\ SubSeq(s, 1, Len(p)) = p

\* int(text) of a run of decimal digits
RECURSIVE IntDec(_)
IntDec(t) ==
    IF t = <<>> THEN 0
    ELSE 10 * IntDec(SubSeq(t, 1, Len(t) - 1)) + DigitVal(t[Len(t)])

\* int(text, 16): the "0x" prefix is optional, the result is the set of 1 bits
IntHex(t) ==
    LET d == IF StartsWith(t, <<"0", "x">>) \/ StartsWith(t, <<"0", "X">>)
             THEN SubSeq(t, 3, Len(t)) ELSE t
        n == Len(d)
    IN  {p \in 0..(4 * n - 1) : (HexVal(d[n - (p \div 4)]) \div Pow2(p % 4)) % 2 = 1}

\* the number a set of bits below 8 stands for
RECURSIVE BitsToNat(_)
BitsToNat(b) ==
    IF b = {} THEN 0
    ELSE LET p == CHOOSE q \in b : TRUE IN Pow2(p) + BitsToNat(b \ {p})

\* f"{byte:02X}"
FormatByte(byte) ==
    LET v == BitsToNat(byte)
    IN  <<UpperHexSeq[(v \div 16) + 1], UpperHexSeq[(v % 16) + 1]>>

\* " ".join(parts)
RECURSIVE JoinSpace(_)
JoinSpace(parts) ==
    IF parts = <<>> THEN <<>>
    ELSE IF Len(parts) = 1 THEN parts[1]
    ELSE parts[1] \o <<" ">> \o JoinSpace(Tail(parts))

\* data.split(): the runs of non-blank characters
RECURSIVE SplitBlank(_, _, _)
SplitBlank(s, cur, acc) ==
    IF s = <<>> THEN (IF cur = <<>> THEN acc ELSE Append(acc, cur))
    ELSE IF Head(s) = " "
         THEN SplitBlank(Tail(s), <<>>, IF cur = <<>> THEN acc ELSE Append(acc, cur))
         ELSE SplitBlank(Tail(s), Append(cur, Head(s)), acc)

\* the comparison off by one: a >= b
IntGreaterOrEqual(a, b) ==
    a = b \/ \E i \in a \ b : \A j \in (a \cup b) : j > i => (j \in a <=> j \in b)

\* a > b on Python ints given as sets of bits
IntGreater(a, b) ==
    \E i \in a \ b : \A j \in (a \cup b) : j > i => (j \in a <=> j \in b)

----------------------------------------------------------------------------
(* re.match: the pattern is a sequence of literal characters and of        *)
(* capturing runs cls+.  The match is anchored at the start of the text     *)
(* only.  Every run is followed by a literal outside its class or ends the  *)
(* pattern, so the greedy run is the only way to match.                     *)

Lit(c) == [kind |-> "lit", chars |-> {c}]
Run(cls) == [kind |-> "run", chars |-> cls]

\* the first position from i on whose character is not in cls
RECURSIVE RunEnd(_, _, _)
RunEnd(s, i, cls) ==
    IF i <= Len(s) /\ s[i] \in cls THEN RunEnd(s, i + 1, cls) ELSE i

NoMatch == [ok |-> FALSE, runs |-> <<>>, end |-> 0]

RECURSIVE ReMatch(_, _, _, _, _)
ReMatch(pat, k, s, i, runs) ==
    IF k > Len(pat) THEN [ok |-> TRUE, runs |-> runs, end |-> i]
    ELSE IF pat[k].kind = "lit"
         THEN IF i <= Len(s) /\ s[i] \in pat[k].chars
              THEN ReMatch(pat, k + 1, s, i + 1, runs)
              ELSE NoMatch
         ELSE LET j == RunEnd(s, i, pat[k].chars)
              IN  IF j = i THEN NoMatch
                  ELSE ReMatch(pat, k + 1, s, j, Append(runs, SubSeq(s, i, j - 1)))

\* ([0-9]+)\.([0-9]+)-([0-9]+)\.([0-9]+)
RangePattern ==
    <<Run(DigitChars), Lit("."), Run(DigitChars), Lit("-"),
      Run(DigitChars), Lit("."), Run(DigitChars)>>

\* (0x[0-9A-Fa-f]+),<range>=(0x[0-9A-Fa-f]+)
SpecPattern ==
    <<Lit("0"), Lit("x"), Run(HexChars), Lit(",")>> \o RangePattern \o
    <<Lit("="), Lit("0"), Lit("x"), Run(HexChars)>>

----------------------------------------------------------------------------
(* TesterSignal *)

Returned(text) == [status |-> "ok", error |-> "", msg |-> "", ret |-> text]
Raised(error, msg) == [status |-> "error", error |-> error, msg |-> msg, ret |-> <<>>]

\* the position in a Python list of length n that index idx addresses
\* (a negative index counts from the end), as a position of a sequence
ListPos(n, idx) == (IF idx < 0 THEN idx + n ELSE idx) + 1

\* a | (1 << i)
IntOrBit(a, i) == IF i \in a THEN a ELSE a \cup {i}

\* the byte assigned instead of or-ed: msg_data[byte_idx] = (1 << bit_idx)
SetBitAssign(msg_data, byte_idx, bit_idx) ==
    [msg_data EXCEPT ![ListPos(Len(msg_data), byte_idx)] = {bit_idx}]

\* msg_data[byte_idx] |= (1 << bit_idx)
SetBit(msg_data, byte_idx, bit_idx) ==
    LET k == ListPos(Len(msg_data), byte_idx)
    IN  [msg_data EXCEPT ![k] = IntOrBit(@, bit_idx)]

\* the locals of generate_can_message after the match and the conversions
ParsedSpec(m) ==
    LET start_byte == IntDec(m.runs[2]) - 1
        start_bit == IntDec(m.runs[3])
        end_byte == IntDec(m.runs[4]) - 1
        end_bit == IntDec(m.runs[5])
    IN  [can_id |-> <<"0", "x">> \o m.runs[1],
         value |-> IntHex(<<"0", "x">> \o m.runs[6]),
         start_byte |-> start_byte, start_bit |-> start_bit,
         end_byte |-> end_byte, end_bit |-> end_bit,
         signal_length |-> (end_byte - start_byte) * 8 + (end_bit - start_bit) + 1]

\* one iteration of the bit loop of generate_can_message, for signal bit i;
\* the loop starts at bit position start_pos and advances it by one per
\* iteration.  st is the exception the loop has ended with ("" while it runs)
\* and msg_data.  Indexing a list below -len raises IndexError
PackStep(value, start_pos, i, st) ==
    IF st.raised # "" THEN st
    ELSE IF i \in value
         THEN LET current_bit_pos == start_pos + i
                  byte_idx == current_bit_pos \div 8
                  bit_idx == current_bit_pos % 8
              IN  IF byte_idx >= FrameBytes
                  THEN [st EXCEPT !.raised = "ValueError"]
                  ELSE IF byte_idx < 0 - Len(st.msg_data)
                  THEN [st EXCEPT !.raised = "IndexError"]
                  ELSE [st EXCEPT !.msg_data = SetBit(@, byte_idx, bit_idx)]
         ELSE st

\* for i in range(lo, hi + 1): the iterations in order, the range split in
\* two; an exception ends the loop
RECURSIVE PackLoop(_, _, _, _, _)
PackLoop(value, start_pos, lo, hi, st) ==
    IF lo > hi \/ st.raised # "" THEN st
    ELSE IF lo = hi THEN PackStep(value, start_pos, lo, st)
    ELSE LET mid == (lo + hi) \div 2
         IN  PackLoop(value, start_pos, mid + 1, hi,
                      PackLoop(value, start_pos, lo, mid, st))

\* the loop started as the code starts it
Pack(p) ==
    PackLoop(p.value, p.start_byte * 8 + p.start_bit, 0, p.signal_length - 1,
             [raised |-> "", msg_data |-> [k \in 1..FrameBytes |-> {}]])

\* f"tcans {can_id},{msg_data_str}"
FormatCommand(can_id, msg_data) ==
    <<"t", "c", "a", "n", "s", " ">> \o
    (IF StartsWith(can_id, <<"0", "x">>) THEN SubSeq(can_id, 3, Len(can_id)) ELSE can_id)
    \o <<",">> \o JoinSpace([k \in 1..Len(msg_data) |-> FormatByte(msg_data[k])])

generate_can_message(signal_spec) ==
    LET m == ReMatch(SpecPattern, 1, signal_spec, 1, <<>>)
    IN  IF ~m.ok THEN Raised("ValueError", "format")
        ELSE LET p == ParsedSpec(m)
             IN  IF p.signal_length <= 0 \/ p.signal_length > MaxSignalLength
                 THEN Raised("ValueError", "length")
                 ELSE IF IntGreater(p.value, 0..(p.signal_length - 1))
                 THEN Raised("ValueError", "value")
                 ELSE LET r == Pack(p)
                      IN  IF r.raised = "ValueError"
                          THEN Raised("ValueError", "byte_range")
                          ELSE IF r.raised # "" THEN Raised(r.raised, "index")
                          ELSE Returned(FormatCommand(p.can_id, r.msg_data))

\* one iteration of the bit loop of decode_can_message, for signal bit i
ExtractStep(data_bytes, start_pos, i, st) ==
    IF st.raised # "" THEN st
    ELSE LET current_bit_pos == start_pos + i
             byte_idx == current_bit_pos \div 8
             bit_idx == current_bit_pos % 8
         IN  IF byte_idx >= FrameBytes
             THEN [st EXCEPT !.raised = "ValueError"]
             ELSE IF byte_idx < 0 - Len(data_bytes)
             THEN [st EXCEPT !.raised = "IndexError"]
             ELSE IF bit_idx \in data_bytes[ListPos(Len(data_bytes), byte_idx)]
             THEN [st EXCEPT !.result = IntOrBit(@, i)]
             ELSE st

\* for i in range(lo, hi + 1): the iterations in order, the range split in
\* two; an exception ends the loop
RECURSIVE ExtractLoop(_, _, _, _, _)
ExtractLoop(data_bytes, start_pos, lo, hi, st) ==
    IF lo > hi \/ st.raised # "" THEN st
    ELSE IF lo = hi THEN ExtractStep(data_bytes, start_pos, lo, st)
    ELSE LET mid == (lo + hi) \div 2
         IN  ExtractLoop(data_bytes, start_pos, mid + 1, hi,
                         ExtractLoop(data_bytes, start_pos, lo, mid, st))

decode_can_message(can_id, data, signal_spec) ==
    LET m == ReMatch(RangePattern, 1, signal_spec, 1, <<>>)
        tokens == SplitBlank(data, <<>>, <<>>)
    IN  IF ~m.ok THEN Raised("ValueError", "format")
        ELSE IF \E k \in 1..Len(tokens) : \E j \in 1..Len(tokens[k]) :
                    tokens[k][j] \notin HexChars
        THEN Raised("ValueError", "literal")
        ELSE IF Len(tokens) # FrameBytes THEN Raised("ValueError", "data_length")
        ELSE LET start_byte == IntDec(m.runs[1]) - 1
                 start_bit == IntDec(m.runs[2])
                 end_byte == IntDec(m.runs[3]) - 1
                 end_bit == IntDec(m.runs[4])
                 data_bytes == [k \in 1..Len(tokens) |-> IntHex(tokens[k])]
                 signal_length == (end_byte - start_byte) * 8 + (end_bit - start_bit) + 1
                 r == ExtractLoop(data_bytes, start_byte * 8 + start_bit,
                                  0, signal_length - 1,
                                  [raised |-> "", result |-> {}])
             IN  IF r.raised = "ValueError" THEN Raised("ValueError", "byte_range")
                 ELSE IF r.raised # "" THEN Raised(r.raised, "index")
                 ELSE Returned(r.result)

----------------------------------------------------------------------------
(* The codec run: one signal specification is packed, and the frame of an   *)
(* accepted one is decoded with the same range.                             *)

\* the decimal text of a byte or bit number
DecText(n) ==
    IF n < 10 THEN <<DigitSeq[n + 1]>>
    ELSE <<DigitSeq[(n \div 10) + 1], DigitSeq[(n % 10) + 1]>>

\* "<byte>.<bit>-<byte>.<bit>"
RangeText(in) ==
    DecText(in.sb) \o <<".">> \o DecText(in.sbit) \o <<"-">> \o
    DecText(in.eb) \o <<".">> \o DecText(in.ebit)

\* "<id>,<range>=<value>" and whatever follows it
SpecText(in) == in.id \o <<",">> \o RangeText(in) \o <<"=">> \o in.val \o in.tail

\* the data bytes of a command "tcans <id>,<data>"
DataOf(cmd) ==
    LET c == CHOOSE k \in 1..Len(cmd) : cmd[k] = "," /\ \A j \in 1..(k - 1) : cmd[j] # ","
    IN  SubSeq(cmd, c + 1, Len(cmd))

Id261 == <<"0", "x", "2", "6", "1">>
Hex(digits) == <<"0", "x">> \o digits

BitNums == {0, 1, 7, 8}

Values ==
    {Hex(<<"0">>), Hex(<<"1">>), Hex(<<"2">>), Hex(<<"3">>), Hex(<<"2", "3", "A">>),
     Hex(<<"8", "0", "0", "1">>),
     Hex([k \in 1..16 |-> "F"]),
     Hex(<<"1">> \o [k \in 1..16 |-> "0"])}

\* well-formed texts over every range
WellFormed ==
    [id : {Id261}, sb : 0..MaxByte, sbit : BitNums, eb : 0..MaxByte, ebit : BitNums,
     val : Values, tail : {<<>>}]

\* texts with a missing prefix, an upper-case prefix or trailing characters
Deviant ==
    [id : {Id261, <<"2", "6", "1">>, <<"0", "X", "1">>}, sb : {1}, sbit : {0, 7},
     eb : {1, 2}, ebit : {0},
     val : {Hex(<<"1">>), Hex(<<"3">>), <<"3">>, Hex(<<>>)},
     tail : {<<>>, <<"z", "z">>, <<" ", "1">>, <<"\n">>}]

Inputs == WellFormed \cup Deviant

None == [status |-> "none", error |-> "", msg |-> "", ret |-> <<>>]

CodecInit ==
    /\ input \in Inputs
    /\ pc = "start"
    /\ gen = None
    /\ dec = None
    /\ variables = <<>>
    /\ templates = <<>>
    /\ files = <<>>
    /\ lastCall = None

Generate ==
    /\ pc = "start"
    /\ gen' = generate_can_message(SpecText(input))
    /\ pc' = "generated"
    /\ UNCHANGED <<input, dec, engineVars>>

Decode ==
    /\ pc = "generated"
    /\ gen.status = "ok"
    /\ dec' = decode_can_message(input.id, DataOf(gen.ret), RangeText(input))
    /\ pc' = "decoded"
    /\ UNCHANGED <<input, gen, engineVars>>

CodecNext == Generate \/ Decode

CodecSpec == CodecInit /\ [][CodecNext]_vars

----------------------------------------------------------------------------
(* TemplateEngine.  A value bound in the context is a str, a list of pairs  *)
(* (a data table) or a function; a dict is a function on its keys.          *)

Str(text) == [kind |-> "str", val |-> text]
List(rows) == [kind |-> "list", val |-> rows]
Function(name) == [kind |-> "function", val |-> name]
Builtin(name) == [kind |-> "builtin", val |-> name]

\* None as an argument
NoneValue == "<None>"

\* a binding that is kept when the key is bound already: d.setdefault(k, v)
DictSetDefault(d, k, v) ==
    [x \in (DOMAIN d) \cup {k} |-> IF x \in DOMAIN d THEN d[x] ELSE v]

\* d[k] = v
DictSet(d, k, v) == [x \in (DOMAIN d) \cup {k} |-> IF x = k THEN v ELSE d[x]]

\* a path is its directory, the file name without extension, and the extension
Path(dir, stem, ext) == [dir |-> dir, stem |-> stem, ext |-> ext]

\* no path: None or the empty string
NoPath == Path("", "", "")

\* os.path.splitext(os.path.basename(file_path))[0]
BaseName(file_path) == file_path.stem

\* what a file holds: the lines of a csv file, the items of a template file,
\* the text written to an output file
File(kind, val) == [kind |-> kind, val |-> val]

\* os.path.exists(file_path)
Exists(fs, file_path) == file_path \in DOMAIN fs

\* the directories that exist
Dirs == {"data", "out"}

\* line.split(delimiter) as csv.reader does it for text without quotes: an
\* empty line is a row of no columns
RECURSIVE SplitOn(_, _, _, _)
SplitOn(line, delimiter, cur, acc) ==
    IF line = <<>> THEN Append(acc, cur)
    ELSE IF Head(line) = delimiter
         THEN SplitOn(Tail(line), delimiter, <<>>, Append(acc, cur))
         ELSE SplitOn(Tail(line), delimiter, Append(cur, Head(line)), acc)

CsvRow(line, delimiter) ==
    IF line = <<>> THEN <<>> ELSE SplitOn(line, delimiter, <<>>, <<>>)

\* the rows of csv.reader(f, delimiter) with the delimiter detected on the
\* first line
CsvReader(lines) ==
    LET sample == IF lines = <<>> THEN <<>> ELSE lines[1]
        delimiter == IF \E k \in 1..Len(sample) : sample[k] = ";" THEN ";" ELSE ","
    IN  [k \in 1..Len(lines) |-> CsvRow(lines[k], delimiter)]

\* for row in reader: if len(row) > max(key_column, value_column): data.append(...)
RECURSIVE CollectRows(_, _, _, _)
CollectRows(rows, key_column, value_column, data) ==
    IF rows = <<>> THEN data
    ELSE LET row == Head(rows)
             max == IF key_column > value_column THEN key_column ELSE value_column
         IN  CollectRows(Tail(rows), key_column, value_column,
                 IF Len(row) > max
                 THEN Append(data, <<row[key_column + 1], row[value_column + 1]>>)
                 ELSE data)

\* load_variables_from_csv: the outcome and the new variables
LoadCsv(vs, fs, file_path, key_column, value_column, has_header, var_name) ==
    IF ~Exists(fs, file_path)
    THEN [result |-> Raised("FileNotFoundError", "file"), variables |-> vs]
    ELSE LET name == IF var_name = NoneValue THEN BaseName(file_path) ELSE var_name
             reader == CsvReader(fs[file_path].val)
         IN  IF has_header /\ reader = <<>>
             THEN [result |-> Raised("StopIteration", "next"), variables |-> vs]
             ELSE LET rows == IF has_header THEN Tail(reader) ELSE reader
                      data == CollectRows(rows, key_column, value_column, <<>>)
                  IN  [result |-> Returned(<<>>),
                       variables |-> DictSet(vs, name, List(data))]

----------------------------------------------------------------------------
(* The template engine behind render_template.  A template is a sequence    *)
(* of items: literal text, {{ name }} and {{ name("arg") }}; a text the     *)
(* engine cannot parse is the template Broken.  The environment is          *)
(* Environment() as the code creates it, with its default undefined type:   *)
(* a name that is not bound renders as the empty text, and calling it       *)
(* raises UndefinedError.                                                   *)

Text(t) == [kind |-> "text", name |-> "", arg |-> t]
Ref(name) == [kind |-> "ref", name |-> name, arg |-> <<>>]
Call(name, arg) == [kind |-> "call", name |-> name, arg |-> arg]
Broken == <<[kind |-> "syntax_error", name |-> "", arg |-> <<>>]>>

\* env.globals.update({...})
Globals == {"len", "enumerate", "range", "str", "int"}

Undefined == [kind |-> "undefined", val |-> ""]

\* the value a name resolves to: the render arguments shadow the globals
Resolve(vs, name) ==
    IF name \in DOMAIN vs THEN vs[name]
    ELSE IF name \in Globals THEN Builtin(name)
    ELSE Undefined

\* what rendering one item adds to the output, or the exception it raises
RenderItem(vs, item) ==
    LET v == Resolve(vs, item.name)
    IN  IF item.kind = "text" THEN Returned(<<Str(item.arg)>>)
        ELSE IF item.kind = "ref"
        THEN (IF v.kind = "undefined" THEN Returned(<<>>) ELSE Returned(<<v>>))
        ELSE IF v.kind = "undefined" THEN Raised("UndefinedError", item.name)
        ELSE IF v.kind = "function" THEN
             LET r == generate_can_message(item.arg)
             IN  IF r.status = "ok" THEN Returned(<<Str(r.ret)>>) ELSE r
        ELSE IF v.kind = "builtin" THEN Returned(<<[kind |-> "result", val |-> item]>>)
        ELSE Raised("TypeError", "not callable")

RECURSIVE RenderItems(_, _, _)
RenderItems(vs, items, out) ==
    IF items = <<>> THEN Returned(out)
    ELSE LET r == RenderItem(vs, Head(items))
         IN  IF r.status # "ok" THEN r
             ELSE RenderItems(vs, Tail(items), out \o r.ret)

\* env.from_string(template_content) and template.render(**self.variables)
JinjaRender(vs, template_content) ==
    IF template_content = Broken THEN Raised("TemplateSyntaxError", "syntax")
    ELSE RenderItems(vs, template_content, <<>>)

\* the destination opened before the template is rendered
RenderTemplateOpenFirst(vs, ts, fs, template_name, output_file) ==
    IF template_name \notin DOMAIN ts
    THEN [result |-> Raised("KeyError", template_name), files |-> fs]
    ELSE IF output_file # NoPath /\ output_file.dir \notin Dirs
    THEN [result |-> Raised("FileNotFoundError", "open"), files |-> fs]
    ELSE LET r == JinjaRender(vs, ts[template_name])
             opened == IF output_file = NoPath THEN fs
                       ELSE DictSet(fs, output_file, File("text", <<>>))
         IN  IF r.status # "ok" THEN [result |-> r, files |-> opened]
             ELSE IF output_file = NoPath THEN [result |-> r, files |-> fs]
             ELSE [result |-> r, files |-> DictSet(fs, output_file, File("text", r.ret))]

\* render_template: the outcome and the new file system
RenderTemplate(vs, ts, fs, template_name, output_file) ==
    IF template_name \notin DOMAIN ts
    THEN [result |-> Raised("KeyError", template_name), files |-> fs]
    ELSE LET r == JinjaRender(vs, ts[template_name])
         IN  IF r.status # "ok" THEN [result |-> r, files |-> fs]
             ELSE IF output_file = NoPath THEN [result |-> r, files |-> fs]
             ELSE IF output_file.dir \notin Dirs
             THEN [result |-> Raised("FileNotFoundError", "open"), files |-> fs]
             ELSE [result |-> r, files |-> DictSet(fs, output_file, File("text", r.ret))]

----------------------------------------------------------------------------
(* The engine run: calls on one TemplateEngine and on the generator that    *)
(* owns it, over a file system with one csv file, one template file and     *)
(* one earlier output.                                                      *)

\* columns of a csv file are 0..MaxColumn
MaxColumn == 2

VarNames == {"ids", "encode_signal"}
ScalarValues == {Str(<<"v", "1">>), Str(<<"v", "2">>)}

CsvPath == Path("data", "ids", "csv")
MissingCsv == Path("data", "gone", "csv")
TemplatePath == Path("data", "t", "j2")
MissingTemplate == Path("data", "u", "j2")
OutOld == Path("out", "old", "tester")
OutNoDir == Path("nodir", "x", "tester")

\* a file with no line, and one with a header, a short row, an empty line, a
\* repeated key and a long row
EmptyCsv == <<>>
RowsCsv ==
    <<<<"k", ",", "v">>, <<"a", ",", "1">>, <<"b">>, <<>>, <<"a", ",", "2">>,
      <<"c", ",", "3", ",", "4">>>>

CsvContents ==
    {EmptyCsv, RowsCsv,
     <<<<"k", ",", "v">>>>,
     <<<<"k", ";", "v">>, <<"a", ";", "1", ",", "2">>>>,
     <<<<"k", ",", "v">>, <<"a", ";", "1">>>>,
     <<<<"b">>>>}

GoodSpec ==
    SpecText([id |-> Id261, sb |-> 1, sbit |-> 0, eb |-> 2, ebit |-> 1,
              val |-> Hex(<<"2", "3", "A">>), tail |-> <<>>])
BadSpec ==
    SpecText([id |-> Id261, sb |-> 1, sbit |-> 0, eb |-> 1, ebit |-> 0,
              val |-> Hex(<<"2">>), tail |-> <<>>])

EndToEnd == <<Text(<<"h">>), Ref("ids"), Call("encode_signal", GoodSpec)>>
RefUnbound == <<Text(<<"h">>), Ref("nope"), Text(<<"t">>)>>
BadSignal == <<Text(<<"h">>), Call("encode_signal", BadSpec)>>
TemplateContents == {EndToEnd, RefUnbound, BadSignal, Broken}

NoCall == [op |-> "", caller |-> "", args |-> <<>>, result |-> None]
CallOf(op, caller, args, result) ==
    [op |-> op, caller |-> caller, args |-> args, result |-> result]

\* the state after construction, over a file system whose csv file holds
\* one of contents
InitWith(contents) ==
    /\ input = [id |-> <<>>, sb |-> 0, sbit |-> 0, eb |-> 0, ebit |-> 0,
                val |-> <<>>, tail |-> <<>>]
    /\ pc = "engine"
    /\ gen = None
    /\ dec = None
    /\ variables = <<>>
    /\ templates = <<>>
    /\ \E c \in contents :
           files = [f \in {CsvPath, TemplatePath, OutOld} |->
                      IF f = CsvPath THEN File("csv", c)
                      ELSE IF f = TemplatePath THEN File("template", EndToEnd)
                      ELSE File("text", <<Str(<<"o", "l", "d">>)>>)]
    /\ lastCall = NoCall

Init == InitWith({EmptyCsv, RowsCsv})

register_variable(var_name, var_value) ==
    /\ variables' = DictSet(variables, var_name, var_value)
    /\ lastCall' = CallOf("register_variable", "", <<var_name, var_value>>, Returned(<<>>))
    /\ UNCHANGED <<templates, files, codecVars>>

register_template(template_name, template_content) ==
    /\ templates' = DictSet(templates, template_name, template_content)
    /\ lastCall' = CallOf("register_template", "", <<template_name>>, Returned(<<>>))
    /\ UNCHANGED <<variables, files, codecVars>>

load_template_from_file(file_path, template_name) ==
    /\ IF ~Exists(files, file_path)
       THEN /\ lastCall' = CallOf("load_template_from_file", "", <<file_path, template_name>>,
                                  Raised("FileNotFoundError", "file"))
            /\ UNCHANGED templates
       ELSE /\ templates' = DictSet(templates,
                                IF template_name = NoneValue THEN BaseName(file_path)
                                ELSE template_name,
                                files[file_path].val)
            /\ lastCall' = CallOf("load_template_from_file", "", <<file_path, template_name>>,
                                  Returned(<<>>))
    /\ UNCHANGED <<variables, files, codecVars>>

load_variables_from_csv(file_path, key_column, value_column, has_header, var_name) ==
    \E r \in {LoadCsv(variables, files, file_path, key_column, value_column,
                     has_header, var_name)} :
        /\ variables' = r.variables
        /\ lastCall' = CallOf("load_variables_from_csv", "",
                              <<file_path, key_column, value_column, has_header, var_name>>,
                              r.result)
        /\ UNCHANGED <<templates, files, codecVars>>

render_template(template_name, output_file) ==
    \E r \in {RenderTemplate(variables, templates, files, template_name, output_file)} :
        /\ files' = r.files
        /\ lastCall' = CallOf("render_template", "", <<template_name, output_file>>, r.result)
        /\ UNCHANGED <<variables, templates, codecVars>>

\* TesterScriptGenerator.generate_script: it registers the helper, then renders
generate_script(template_name, output_file) ==
    \E vs \in {DictSet(variables, "encode_signal", Function("generate_can_message"))} :
    \E r \in {RenderTemplate(vs, templates, files, template_name, output_file)} :
        /\ variables' = vs
        /\ files' = r.files
        /\ lastCall' = CallOf("render_template", "generate_script",
                              <<template_name, output_file>>, r.result)
        /\ UNCHANGED <<templates, codecVars>>

\* the generator loads with the default columns and header, as
\* TesterScriptGenerator.load_data_from_csv does
Next ==
    \/ \E n \in VarNames, v \in ScalarValues : register_variable(n, v)
    \/ \E c \in TemplateContents : register_template("t", c)
    \/ \E f \in {TemplatePath, MissingTemplate} : load_template_from_file(f, NoneValue)
    \/ \E f \in {CsvPath, MissingCsv}, n \in {NoneValue, "encode_signal"} :
            load_variables_from_csv(f, 0, 1, TRUE, n)
    \/ \E t \in {"t", "u"}, o \in {NoPath, OutOld, OutNoDir} : render_template(t, o)
    \/ \E t \in {"t", "u"}, o \in {OutOld, OutNoDir} : generate_script(t, o)

Spec == Init /\ [][Next]_vars

\* the loader run: load_variables_from_csv over every csv content, column
\* pair and header flag
LoaderInit == InitWith(CsvContents)

LoaderNext ==
    \E f \in {CsvPath, MissingCsv}, kc \in 0..MaxColumn, vc \in 0..MaxColumn,
       h \in BOOLEAN, n \in {NoneValue, "ids"} :
         load_variables_from_csv(f, kc, vc, h, n)

LoaderSpec == LoaderInit /\ [][LoaderNext]_vars

----------------------------------------------------------------------------
(* The codec claims.  They are stated on the fields of the input, not on    *)
(* what the code has parsed.                                                *)

\* 0x followed by at least one hexadecimal digit
HasHexForm(t) ==
    /\ Len(t) >= 3
    /\ t[1] = "0" /\ t[2] = "x"
    /\ \A k \in 3..Len(t) : t[k] \in HexChars

\* the whole text is <0x hex id>,<byte>.<bit>-<byte>.<bit>=<0x hex value>
Grammatical(in) == HasHexForm(in.id) /\ HasHexForm(in.val \o in.tail)

BitLength(in) == (in.eb - in.sb) * 8 + (in.ebit - in.sbit) + 1

\* the 1 bits of the value
ValueBits(in) == IntHex(in.val)

\* value <= 2^bit_length - 1: no 1 bit at or above bit_length
ValueFits(in) == \A b \in ValueBits(in) : b < BitLength(in)

\* the absolute bit position of signal bit i, bytes counted from 1
AbsPos(in, i) == (in.sb - 1) * 8 + in.sbit + i

\* some signal bit lies in a byte past the frame
Overflows(in) ==
    \E i \in 0..(BitLength(in) - 1) : AbsPos(in, i) \div 8 >= FrameBytes

\* a valid signal spec: bytes from 1, a length in 1..64, a value that fits
ValidSpec(in) ==
    /\ Grammatical(in)
    /\ in.sb >= 1 /\ in.eb >= 1
    /\ BitLength(in) \in 1..MaxSignalLength
    /\ ValueFits(in)

\* the absolute positions of the 1 bits of the frame a command carries
FrameBits(cmd) ==
    LET tokens == SplitBlank(DataOf(cmd), <<>>, <<>>)
    IN  {8 * (k - 1) + b : k \in 1..Len(tokens), b \in 0..7} \cap
        {q \in 0..(8 * Len(tokens) - 1) : (q % 8) \in IntHex(tokens[(q \div 8) + 1])}

\* the command carries exactly FrameBytes tokens of two characters
FrameShape(cmd) ==
    LET tokens == SplitBlank(DataOf(cmd), <<>>, <<>>)
    IN  Len(tokens) = FrameBytes /\ \A k \in 1..Len(tokens) : Len(tokens[k]) = 2

\* C1: decoding the frame generated from a valid spec, with the same range,
\* returns the value of the spec
C1_RoundTrip ==
    (pc = "decoded" /\ ValidSpec(input)) =>
        (dec.status = "ok" /\ dec.ret = ValueBits(input))

\* C2: a spec with a signal bit in a byte past the frame is rejected with an
\* error, whatever its value
C2_OverflowRejected ==
    (pc # "start" /\ Grammatical(input) /\ Overflows(input)) => gen.status = "error"

\* C3: a grammatical spec is rejected by the length check or the value check
\* exactly when its bit length is outside 1..64 or its value exceeds
\* 2^bit_length - 1
C3_RangeRejection ==
    (pc # "start" /\ Grammatical(input)) =>
        LET bad == BitLength(input) \notin 1..MaxSignalLength \/ ~ValueFits(input)
        IN  /\ bad => (gen.status = "error" /\ gen.error = "ValueError"
                       /\ gen.msg \in {"length", "value"} /\ gen.ret = <<>>)
            /\ ~bad => gen.msg \notin {"length", "value"}

\* C3: the 1-bit field 1.0-1.0 with value 2 has been rejected
C3_Witness ==
    /\ pc = "generated" /\ Grammatical(input)
    /\ input.sb = 1 /\ input.sbit = 0 /\ input.eb = 1 /\ input.ebit = 0
    /\ ValueBits(input) = {1}
    /\ gen.status = "error" /\ gen.msg = "value"

\* C3: a 64-bit field with every bit set has been accepted
C3_WitnessAccepted ==
    /\ pc = "generated" /\ Grammatical(input)
    /\ BitLength(input) = MaxSignalLength /\ ValueBits(input) = 0..63
    /\ gen.status = "ok"

\* C4: the frame generated from a valid spec that fits in the frame has
\* exactly the bits start + i set for the 1 bits i of the value
C4_BitLayout ==
    (pc # "start" /\ ValidSpec(input) /\ ~Overflows(input)) =>
        /\ gen.status = "ok"
        /\ FrameShape(gen.ret)
        /\ FrameBits(gen.ret) = {AbsPos(input, i) : i \in ValueBits(input)}

\* C4: range 1.7-2.0 with value 0b11 has set bit 7 of byte 0 and bit 0 of byte 1
C4_Witness ==
    /\ pc = "generated" /\ ValidSpec(input)
    /\ input.sb = 1 /\ input.sbit = 7 /\ input.eb = 2 /\ input.ebit = 0
    /\ ValueBits(input) = {0, 1}
    /\ gen.status = "ok" /\ FrameBits(gen.ret) = {7, 8}

\* C5: a text that is not, in its entirety, of the grammar is rejected with
\* the format error
C5_GrammarRejection ==
    (pc # "start" /\ ~Grammatical(input)) =>
        (gen.status = "error" /\ gen.msg = "format")

\* C10: every bit an accepted spec has written is at a non-negative absolute
\* position, and the frame has no other bit set
C10_IndicesInFrame ==
    (pc # "start" /\ gen.status = "ok") =>
        /\ \A i \in ValueBits(input) : AbsPos(input, i) \div 8 \in 0..(FrameBytes - 1)
        /\ FrameBits(gen.ret) \subseteq {AbsPos(input, i) : i \in ValueBits(input)}

----------------------------------------------------------------------------
(* The engine claims.  A step of the run is one call; lastCall' is the call  *)
(* the step has made.                                                       *)

\* the names a template refers to
ReferencedNames(template_content) ==
    {template_content[k].name :
        k \in {j \in 1..Len(template_content) :
                 template_content[j].kind \in {"ref", "call"}}}

\* C6: rendering a registered template that refers to a name bound neither
\* in the variables nor as a built-in global fails with an error
C6_UnboundFails ==
    LET t == lastCall.args[1]
    IN  (/\ lastCall.op = "render_template"
         /\ t \in DOMAIN templates
         /\ \E n \in ReferencedNames(templates[t]) :
                n \notin (DOMAIN variables) \cup Globals)
        => lastCall.result.status = "error"

\* the calls of a template whose helper raises
FailingCalls(vs, template_content) ==
    {k \in 1..Len(template_content) :
        /\ template_content[k].kind = "call"
        /\ Resolve(vs, template_content[k].name).kind = "function"
        /\ generate_can_message(template_content[k].arg).status = "error"}

C7_Step ==
    LET c == lastCall'
        t == c.args[1]
        o == c.args[2]
    IN  IF c.op # "render_template" THEN files' = files
        ELSE /\ c.result.status = "error" => files' = files
             /\ files' # files =>
                    /\ c.result.status = "ok" /\ o # NoPath
                    /\ files' = [f \in (DOMAIN files) \cup {o} |->
                                   IF f = o THEN File("text", c.result.ret) ELSE files[f]]
             /\ (c.result.status = "ok" /\ o # NoPath) =>
                    (o \in DOMAIN files' /\ files'[o] = File("text", c.result.ret))
             /\ t \notin DOMAIN templates' => c.result.error = "KeyError"
             /\ (t \in DOMAIN templates' /\ templates'[t] = Broken) =>
                    c.result.error = "TemplateSyntaxError"
             /\ (t \in DOMAIN templates' /\ FailingCalls(variables', templates'[t]) # {}) =>
                    /\ c.result.status = "error"
                    /\ c.result.error \in {"ValueError", "UndefinedError", "TypeError"}

\* C7: the destination changes only in a render that has succeeded, and then
\* holds the rendered text; a render that fails (unregistered name, engine
\* error, error raised by the helper a template calls) raises the error and
\* leaves every file as it was
C7_NoOutputOnFailure == [][C7_Step]_vars

\* C7: a render with a destination has failed on the error of encode_signal
C7_Witness ==
    /\ lastCall.op = "render_template"
    /\ lastCall.args[2] = OutOld
    /\ lastCall.result.status = "error" /\ lastCall.result.error = "ValueError"
    /\ lastCall.result.msg = "value"

\* every name but n is bound in vs2 as it is in vs1
SameBut(vs1, vs2, n) ==
    /\ (DOMAIN vs2) \ {n} = (DOMAIN vs1) \ {n}
    /\ \A x \in (DOMAIN vs1) \ {n} : vs2[x] = vs1[x]

C8_Step ==
    LET c == lastCall'
    IN  /\ c.op = "register_variable" =>
               /\ c.result.status = "ok"
               /\ c.args[1] \in DOMAIN variables' /\ variables'[c.args[1]] = c.args[2]
               /\ SameBut(variables, variables', c.args[1])
        /\ c.op = "load_variables_from_csv" =>
               LET n == IF c.args[5] = NoneValue THEN BaseName(c.args[1]) ELSE c.args[5]
               IN  /\ c.result.status = "ok" =>
                          /\ n \in DOMAIN variables' /\ variables'[n].kind = "list"
                          /\ SameBut(variables, variables', n)
                   /\ c.result.status = "error" =>
                          /\ variables' = variables
                          /\ c.result.error \in {"FileNotFoundError", "StopIteration"}
        /\ (c.op = "render_template" /\ c.caller = "generate_script") =>
               /\ "encode_signal" \in DOMAIN variables'
               /\ variables'["encode_signal"] = Function("generate_can_message")
               /\ SameBut(variables, variables', "encode_signal")
        /\ (c.op \notin {"register_variable", "load_variables_from_csv"}
            /\ c.caller = "") => variables' = variables

\* C8: a registration or a successful load binds its name to its value and
\* leaves every other name as it was, whether or not the name was bound, and
\* generate_script binds encode_signal to the codec helper; no other call
\* changes a binding
C8_LastRegistrationWins == [][C8_Step]_vars

\* C8: ids, rendered as v1 into the output before, has been registered again
\* as v2, and encode_signal is bound to the helper
C8_Witness ==
    /\ lastCall.op = "register_variable"
    /\ lastCall.args = <<"ids", Str(<<"v", "2">>)>>
    /\ DOMAIN variables = {"ids", "encode_signal"}
    /\ variables["ids"] = Str(<<"v", "2">>)
    /\ variables["encode_signal"] = Function("generate_can_message")
    /\ Len(files[OutOld].val) = 3 /\ files[OutOld].val[2] = Str(<<"v", "1">>)

\* the pairs of the rows from the second on that have both columns, in order
RECURSIVE ExpectedPairs(_, _, _, _)
ExpectedPairs(rows, k, key_column, value_column) ==
    IF k > Len(rows) THEN <<>>
    ELSE (IF Len(rows[k]) >= key_column + 1 /\ Len(rows[k]) >= value_column + 1
          THEN <<<<rows[k][key_column + 1], rows[k][value_column + 1]>>>>
          ELSE <<>>)
         \o ExpectedPairs(rows, k + 1, key_column, value_column)

\* C9: a load with has_header of a source that exists binds the name to the
\* pairs of the rows after the first that are long enough, for every source;
\* a load of a source that does not exist fails with the not-found error
C9_DataTableLoad ==
    (lastCall.op = "load_variables_from_csv" /\ lastCall.args[4] = TRUE) =>
        LET file_path == lastCall.args[1]
            n == IF lastCall.args[5] = NoneValue THEN BaseName(file_path)
                 ELSE lastCall.args[5]
        IN  IF Exists(files, file_path)
            THEN /\ lastCall.result.status = "ok"
                 /\ n \in DOMAIN variables
                 /\ variables[n] = List(ExpectedPairs(CsvReader(files[file_path].val), 2,
                                                      lastCall.args[2], lastCall.args[3]))
            ELSE /\ lastCall.result.status = "error"
                 /\ lastCall.result.error = "FileNotFoundError"

====
